---- MODULE Spec2Model ----
(***************************************************************************)
(* henkaiki: the article index, the LRU article cache and the paginator of *)
(* src/src/articles.rs, modelled as a state machine.                       *)
(*                                                                         *)
(* Shared state: the filesystem below the source directory, the three      *)
(* index structures (by_id, by_tag, sorted_ids) and the cache.  Every      *)
(* caller is a process with a program counter and locals; one step of a    *)
(* process is one access to one shared structure (one DashMap operation,   *)
(* one mutex critical section, one filesystem read).                       *)
(***************************************************************************)
EXTENDS Integers, Sequences, FiniteSets, TLC

\* ------------------------------------------------------------------ bounds

\* how many times the environment changes the filesystem in one behaviour
MaxFsChanges == 2
\* how many calls are made on the ArticleCache alone in one behaviour
MaxCacheCalls == 4
\* capacity of the LRU cache (config max_cached_articles, any positive value)
Capacity == 2
\* width in bits of usize in the paginator's arithmetic (scaled down from 64)
UsizeBits == 3
\* longest slice handed to the paginator
MaxLen == 3
\* width in bits of the i32 that the id of a metainfo.toml is cast to (scaled
\* down from 32; the TOML integer itself has twice the width)
I32Bits == 3

\* ------------------------------------------------------- program constants

\* ArticleId = i32: the largest value dir_name.parse() accepts
I32Max == 2147483647

\* ---------------------------------------------------------------- helpers

Range(s) == {s[i] : i \in 1..Len(s)}

None == <<>>
Some(x) == <<x>>
IsSome(o) == o # <<>>

IsStrictlyAscending(s) == \A i \in 1..(Len(s) - 1) : s[i] < s[i + 1]

\* all sequences that enumerate the finite set S once each
Enumerations(S) ==
    {s \in [1..Cardinality(S) -> S] : \A x \in S : \E i \in 1..Cardinality(S) : s[i] = x}

\* slice::sort_unstable on a Vec<ArticleId>: an insertion sort into ascending
\* order; equal elements are kept, nothing is removed
RECURSIVE InsertSorted(_, _)
InsertSorted(x, s) ==
    IF s = <<>> THEN <<x>>
    ELSE IF x <= Head(s) THEN <<x>> \o s
    ELSE <<Head(s)>> \o InsertSorted(x, Tail(s))

RECURSIVE SortUnstableRec(_)
SortUnstableRec(s) ==
    IF s = <<>> THEN <<>> ELSE InsertSorted(Head(s), SortUnstableRec(Tail(s)))

NoSort(s) == s

sort_unstable(s) == SortUnstableRec(s)

\* ------------------------------------------------- directory names and ids

Digits == <<"0", "1", "2", "3", "4", "5", "6", "7", "8", "9">>

DigitVal(c) ==
    IF \E d \in 1..10 : Digits[d] = c
    THEN (CHOOSE d \in 1..10 : Digits[d] = c) - 1
    ELSE -1

\* accumulate decimal digits left to right; ok is FALSE on a non-digit or when
\* the value leaves the i32 range
RECURSIVE ParseDigits(_, _, _)
ParseDigits(s, acc, sign) ==
    IF s = <<>> THEN [ok |-> TRUE, val |-> sign * acc]
    ELSE IF DigitVal(Head(s)) < 0 THEN [ok |-> FALSE, val |-> 0]
    ELSE IF acc > (I32Max - DigitVal(Head(s))) \div 10 THEN [ok |-> FALSE, val |-> 0]
    ELSE ParseDigits(Tail(s), acc * 10 + DigitVal(Head(s)), sign)

\* dir_name.parse::<i32>(): an optional sign, then one or more decimal digits;
\* leading zeros are accepted
ParseI32(name) ==
    IF name = <<>> THEN [ok |-> FALSE, val |-> 0]
    ELSE IF Head(name) \in {"+", "-"}
         THEN IF Tail(name) = <<>> THEN [ok |-> FALSE, val |-> 0]
              ELSE ParseDigits(Tail(name), 0, IF Head(name) = "-" THEN -1 ELSE 1)
    ELSE ParseDigits(name, 0, 1)

\* i32::to_string for the directory of an article: no sign for values >= 0, no
\* leading zeros
RECURSIVE NatToString(_)
NatToString(n) ==
    IF n < 10 THEN <<Digits[n + 1]>>
    ELSE NatToString(n \div 10) \o <<Digits[(n % 10) + 1]>>

to_string(id) == IF id < 0 THEN <<"-">> \o NatToString(-id) ELSE NatToString(id)

\* ------------------------------------------------------------- data model

\* names an entry below the source directory can have
Names == {<<"0">>, <<"1">>, <<"0", "1">>, <<"2">>, <<"x">>}

Tags == {"a", "b", "Politics", "History"}

starts_with(s, query) ==
    Len(query) <= Len(s) /\ SubSeq(s, 1, Len(query)) = query

\* strings that are searched (title, description, query) are sequences of
\* characters; str::contains: the query occurs as a contiguous run, and the
\* empty query occurs in every string
contains(s, query) ==
    \E i \in 1..(Len(s) + 1) :
        /\ i + Len(query) - 1 <= Len(s)
        /\ SubSeq(s, i, i + Len(query) - 1) = query

\* struct Metainfo, as far as the index, the loader and the search read it
Metainfo(id, tags, md, title, description) ==
    [id |-> id, tags |-> tags, title |-> title, description |-> description,
     markdown_path |-> md]

\* one entry below the source directory: nothing, a plain file, or a directory
\* with or without a metainfo.toml (meta) and with a body file at fpath
Absent ==
    [id |-> 0, tags |-> <<>>, md |-> "", title |-> <<>>, description |-> <<>>,
     kind |-> "absent", meta |-> "none", fpath |-> "", body |-> 0]

FileEntry == [Absent EXCEPT !.kind = "file"]

DirNoMeta == [Absent EXCEPT !.kind = "dir"]

DirBadMeta == [Absent EXCEPT !.kind = "dir", !.meta = "bad"]

\* a directory whose metainfo.toml parses to (id, tags, "body.md", title,
\* description) and whose body.md holds version `body` of the text
ItemTitled(id, tags, body, title, description) ==
    [id |-> id, tags |-> tags, md |-> "body.md", title |-> title,
     description |-> description, kind |-> "dir", meta |-> "ok",
     fpath |-> "body.md", body |-> body]

\* the same with the title "ab" and the description "c"
Item(id, tags, body) == ItemTitled(id, tags, body, <<"a", "b">>, <<"c">>)

\* the same with the body file gone
ItemNoBody(id, tags) == [Item(id, tags, 0) EXCEPT !.fpath = ""]

\* the same with a body file that cannot be read (File::open or
\* read_to_string fails): Unreadable stands in for the text
Unreadable == -1

ItemUnreadable(id, tags) == Item(id, tags, Unreadable)

\* the render collaborator (markdown_to_html of the configured options)
Render(body) == <<"html", body>>

Article(m, content) ==
    [id |-> m.id, tags |-> m.tags, title |-> m.title,
     description |-> m.description, content |-> content]

\* the built-in sample article and the Metainfo load_index builds from it
\* (title and description shortened to their initials)
SAMPLE_ARTICLE ==
    [id |-> 0, tags |-> <<"Politics", "History">>, title |-> <<"U", "D", "H", "R">>,
     description |-> <<"T", "U", "D">>, content |-> Render(0)]

sample_metainfo ==
    Metainfo(SAMPLE_ARTICLE.id, SAMPLE_ARTICLE.tags, "udhr.md", SAMPLE_ARTICLE.title,
             SAMPLE_ARTICLE.description)

\* build_summary
ArticleSummary(m) ==
    [id |-> m.id, tags |-> m.tags, title |-> m.title, description |-> m.description]

\* ------------------------------------------------------------------ state

Procs == {"w1", "w2", "r1", "r2"}

VARIABLES
    fs,          \* the filesystem: [root: readable?, dirs: Names -> entry]
    fschanges,   \* how many times the environment has changed fs
    sample,      \* config.mainconfig.sample_article
    by_id,       \* ArticleIndex.by_id:  id  -> None | Some(Metainfo)
    by_tag,      \* ArticleIndex.by_tag: tag -> None | Some(Vec<ArticleId>)
    sorted_ids,  \* ArticleIndex.sorted_ids
    cache,       \* the LruCache, least recently used entry first
    pc,          \* where each process is
    loc,         \* each process's locals
    ret,         \* what each process's last call returned
    old,         \* the index as the load_index now running (or last run) found it
    obs,         \* one read of an index structure made while load_index runs
    pg,          \* the paginator's arguments and result
    overflow_checks, \* the build profile: does usize arithmetic panic on overflow?
    stale_window, \* has a rebuild of the index run since the cache was last cleared?
    cache_log    \* the calls made on the ArticleCache alone, with their outcomes

vars == <<fs, fschanges, sample, by_id, by_tag, sorted_ids, cache, pc, loc, ret,
          old, obs, pg, overflow_checks, stale_window, cache_log>>

index == <<by_id, by_tag, sorted_ids>>

Keys(m) == {k \in DOMAIN m : IsSome(m[k])}

ArticleIds == {0} \cup {ParseI32(n).val : n \in {x \in Names : ParseI32(x).ok}}

EmptyById == [i \in ArticleIds |-> None]

EmptyByTag == [t \in Tags |-> None]

NoLoc ==
    [id |-> 0, query |-> <<>>, m |-> None, art |-> None, todo |-> {}, ti |-> 0,
     next |-> "", ids |-> <<>>, seen |-> {}, tag |-> "", out |-> <<>>, op |-> "",
     max_per_page |-> 0, page_number |-> 0, prog |-> <<>>, held |-> {}]

\* what a call returned: Ok (kind "ok", the value in val), Err (kind "err",
\* which error in err) or a panic; id and tag are the call's arguments
Ret(op, kind, err, val, id, tag) ==
    [id |-> id, val |-> val, kind |-> kind, tag |-> tag, op |-> op, err |-> err]

NoRet == Ret("none", "none", "", <<>>, 0, "")

NoObs == [id |-> 0, val |-> <<>>, kind |-> "none", tag |-> ""]

NoPg ==
    [max_per_page |-> 0, page_number |-> 0, data |-> <<>>,
     res |-> [val |-> <<>>, kind |-> "uncalled", err |-> ""]]

\* Articles::new has run load_index to its end (whatever it returned)
Constructed == ret["w1"].kind # "none"

Returns(p, r) ==
    /\ pc' = [pc EXCEPT ![p] = "idle"]
    /\ loc' = [loc EXCEPT ![p] = NoLoc]
    /\ ret' = [ret EXCEPT ![p] = r]

Goes(p, to, l) ==
    /\ pc' = [pc EXCEPT ![p] = to]
    /\ loc' = [loc EXCEPT ![p] = l]
    /\ ret' = ret

\* ------------------------------------------------------------ ArticleIndex

\* by_id.insert(article_id, metainfo): a later insert of the same id replaces
by_id_insert(b, m) == [b EXCEPT ![m.id] = Some(m)]

\* by_tag.entry(tag).or_default().push(article_id)
by_tag_push(bt, tag, id) ==
    [bt EXCEPT ![tag] = Some((IF IsSome(@) THEN @[1] ELSE <<>>) \o <<id>>)]

get_all_ids == sorted_ids

get_ids_by_tag(tag) == IF IsSome(by_tag[tag]) THEN by_tag[tag][1] ELSE <<>>

get_metainfo(id) == IF id \in DOMAIN by_id THEN by_id[id] ELSE None

\* ------------------------------------------------- ArticleStorage: the scan

\* i32 values are -I32Mod / 2 .. I32Mod / 2 - 1
I32Mod == 2 ^ I32Bits

\* `v as i32` of an i64: the low bits of v, read as a signed number
as_i32(v) == ((v + I32Mod \div 2) % I32Mod) - I32Mod \div 2

\* parse_metainfo: Err (None) for a file that is no well-formed record, else
\* the Metainfo, whose id is the record's integer cast to i32; an entry's id
\* field is the integer written in the file
parse_metainfo(e) ==
    IF e.meta # "ok" THEN None
    ELSE Some(Metainfo(as_i32(e.id), e.tags, e.md, e.title, e.description))

\* what scan_articles makes of one directory entry: Some(Metainfo) to add, or
\* None when the entry is skipped
ScanEntryResult(name, e) ==
    IF e.kind # "dir" THEN None
    ELSE IF ~ParseI32(name).ok THEN None
    ELSE IF e.meta = "none" THEN None
    ELSE IF ~IsSome(parse_metainfo(e)) THEN None
    ELSE IF parse_metainfo(e)[1].id # ParseI32(name).val THEN None
    ELSE parse_metainfo(e)

\* ------------------------------------------- load_index, one step at a time

\* load_index returns Err (the scan's I/O error) or Ok; op tells the call
\* Articles::new makes ("new") from a refresh_index() ("refresh_index")
LoadErr(op) == Ret(op, "err", "io", <<>>, 0, "")

LoadOk(op) == Ret(op, "ok", "", <<>>, 0, "")

\* the call (Articles::new's by w1, later any caller's refresh_index()), and
\* ArticleIndex::clear's first statement: by_id.clear()
LoadIndexBegin(w) ==
    /\ pc[w] = "idle"
    /\ Constructed \/ w = "w1"
    /\ by_id' = EmptyById
    /\ old' = [by_id |-> by_id, by_tag |-> by_tag, sorted_ids |-> sorted_ids]
    /\ obs' = NoObs
    /\ Goes(w, "clear_by_tag",
            [NoLoc EXCEPT !.op = IF Constructed THEN "refresh_index" ELSE "new"])
    /\ stale_window' = TRUE
    /\ UNCHANGED <<fs, fschanges, sample, by_tag, sorted_ids, cache, pg, overflow_checks, cache_log>>

\* by_tag.clear()
ClearByTag(w) ==
    /\ pc[w] = "clear_by_tag"
    /\ by_tag' = EmptyByTag
    /\ Goes(w, "clear_sorted", loc[w])
    /\ UNCHANGED <<fs, fschanges, sample, by_id, sorted_ids, cache, old, obs, pg, overflow_checks, stale_window, cache_log>>

ClearSortedAndCache(w) ==
    /\ pc[w] = "clear_sorted"
    /\ sorted_ids' = <<>>
    /\ cache' = <<>>
    /\ Goes(w, IF sample THEN "sample" ELSE "read_dir", loc[w])
    /\ UNCHANGED <<fs, fschanges, sample, by_id, by_tag, old, obs, pg, overflow_checks, stale_window, cache_log>>

\* sorted_ids.lock().clear()
ClearSorted(w) ==
    /\ pc[w] = "clear_sorted"
    /\ sorted_ids' = <<>>
    /\ Goes(w, IF sample THEN "sample" ELSE "read_dir", loc[w])
    /\ UNCHANGED <<fs, fschanges, sample, by_id, by_tag, cache, old, obs, pg, overflow_checks, stale_window, cache_log>>

\* add_metainfo's first statement for metainfo m, then on to its tag loop (or
\* past it when m has no tags)
AddMetainfo(w, m, next, l) ==
    /\ by_id' = by_id_insert(by_id, m)
    /\ IF m.tags = <<>>
       THEN Goes(w, next, l)
       ELSE Goes(w, "add_tags", [l EXCEPT !.m = Some(m), !.ti = 1, !.next = next])

\* the sample article is put into the index first
AddSample(w) ==
    /\ pc[w] = "sample"
    /\ AddMetainfo(w, sample_metainfo, "read_dir", loc[w])
    /\ UNCHANGED <<fs, fschanges, sample, by_tag, sorted_ids, cache, old, obs, pg, overflow_checks, stale_window, cache_log>>

\* one turn of add_metainfo's loop over the tags
PushTag(w) ==
    /\ pc[w] = "add_tags"
    /\ LET m == loc[w].m[1]
           i == loc[w].ti
       IN /\ by_tag' = by_tag_push(by_tag, m.tags[i], m.id)
          /\ IF i = Len(m.tags)
             THEN Goes(w, loc[w].next, [loc[w] EXCEPT !.m = None, !.ti = 0, !.next = ""])
             ELSE Goes(w, "add_tags", [loc[w] EXCEPT !.ti = i + 1])
    /\ UNCHANGED <<fs, fschanges, sample, by_id, sorted_ids, cache, old, obs, pg, overflow_checks, stale_window, cache_log>>

\* fs::read_dir(&self.source_dir)?
ReadDir(w) ==
    /\ pc[w] = "read_dir"
    /\ IF ~fs.root
       THEN Returns(w, LoadErr(loc[w].op))
       ELSE Goes(w, "scan", [loc[w] EXCEPT !.todo = {n \in Names : fs.dirs[n].kind # "absent"}])
    /\ UNCHANGED <<fs, fschanges, sample, by_id, by_tag, sorted_ids, cache, old, obs, pg, overflow_checks, stale_window, cache_log>>

\* one turn of scan_articles' loop: the iterator fails (entry?), or yields an
\* entry, in any order, that is skipped or added
ScanEntry(w) ==
    /\ pc[w] = "scan"
    /\ loc[w].todo # {}
    /\ IF ~fs.root
       THEN /\ Returns(w, LoadErr(loc[w].op))
            /\ by_id' = by_id
       ELSE \E n \in loc[w].todo :
              LET r == ScanEntryResult(n, fs.dirs[n])
                  l == [loc[w] EXCEPT !.todo = @ \ {n}]
              IN IF IsSome(r)
                 THEN AddMetainfo(w, r[1], "scan", l)
                 ELSE /\ Goes(w, "scan", l)
                      /\ by_id' = by_id
    /\ UNCHANGED <<fs, fschanges, sample, by_tag, sorted_ids, cache, old, obs, pg, overflow_checks, stale_window, cache_log>>

\* sort_indices: collect by_id's keys, in the map's order, and sort them
SortCollect(w) ==
    /\ pc[w] = "scan"
    /\ loc[w].todo = {}
    /\ \E all_ids \in Enumerations(Keys(by_id)) :
          Goes(w, "sort_store", [loc[w] EXCEPT !.ids = sort_unstable(all_ids)])
    /\ UNCHANGED <<fs, fschanges, sample, by_id, by_tag, sorted_ids, cache, old, obs, pg, overflow_checks, stale_window, cache_log>>

\* sort_indices: *locked_ids = all_ids
SortStore(w) ==
    /\ pc[w] = "sort_store"
    /\ sorted_ids' = loc[w].ids
    /\ IF Keys(by_tag) = {}
       THEN Returns(w, LoadOk(loc[w].op))
       ELSE Goes(w, "sort_tags", [loc[w] EXCEPT !.ids = <<>>])
    /\ UNCHANGED <<fs, fschanges, sample, by_id, by_tag, cache, old, obs, pg, overflow_checks, stale_window, cache_log>>

\* sort_indices: one turn of the loop over by_tag.iter_mut(), in the map's
\* order; after the last entry load_index returns Ok
SortTag(w) ==
    /\ pc[w] = "sort_tags"
    /\ \E t \in Keys(by_tag) \ loc[w].seen :
          /\ by_tag' = [by_tag EXCEPT ![t] = Some(sort_unstable(@[1]))]
          /\ IF Keys(by_tag) \subseteq loc[w].seen \cup {t}
             THEN Returns(w, LoadOk(loc[w].op))
             ELSE Goes(w, "sort_tags", [loc[w] EXCEPT !.seen = @ \cup {t}])
    /\ UNCHANGED <<fs, fschanges, sample, by_id, sorted_ids, cache, old, obs, pg, overflow_checks, stale_window, cache_log>>

\* iter_mut has passed every entry it will see
SortTagsEnd(w) ==
    /\ pc[w] = "sort_tags"
    /\ Keys(by_tag) \subseteq loc[w].seen
    /\ Returns(w, LoadOk(loc[w].op))
    /\ UNCHANGED <<fs, fschanges, sample, by_id, by_tag, sorted_ids, cache, old, obs, pg, overflow_checks, stale_window, cache_log>>

LoadIndexStep(w) ==
    \/ ClearByTag(w)
    \/ ClearSorted(w)
    \/ AddSample(w)
    \/ PushTag(w)
    \/ ReadDir(w)
    \/ ScanEntry(w)
    \/ SortCollect(w)
    \/ SortStore(w)
    \/ SortTag(w)

\* --------------------------------------------------------------- Paginator

\* usize values are 0 .. UsizeMod - 1
UsizeMod == 2 ^ UsizeBits

\* a usize operation whose mathematical result is v: the value itself when it
\* fits, else a panic (overflow checks on) or the wrapped value (off)
Usize(v, checked) ==
    IF v >= 0 /\ v < UsizeMod THEN [panic |-> FALSE, val |-> v]
    ELSE IF checked THEN [panic |-> TRUE, val |-> 0]
    ELSE [panic |-> FALSE, val |-> v % UsizeMod]

\* (total_items + max_per_page - 1) / max_per_page, or 0 when either is 0
compute_total_pages(total_items, max_per_page, checked) ==
    IF total_items = 0 \/ max_per_page = 0 THEN [panic |-> FALSE, val |-> 0]
    ELSE LET sum == Usize(total_items + max_per_page, checked)
             dec == Usize(sum.val - 1, checked)
         IN IF sum.panic \/ dec.panic THEN [panic |-> TRUE, val |-> 0]
            ELSE [panic |-> FALSE, val |-> dec.val \div max_per_page]

PagePanic == [val |-> <<>>, kind |-> "panic", err |-> ""]

PageErr == [val |-> <<>>, kind |-> "err", err |-> "PageOutOfRange"]

PageNoneAsErr == [val |-> <<>>, kind |-> "err", err |-> "PageOutOfRange"]

PageNone == [val |-> <<>>, kind |-> "none", err |-> ""]

\* &data[start..end]: panics unless start <= end <= data.len()
Slice(data, start, end) ==
    IF start > end \/ end > Len(data) THEN PagePanic
    ELSE [kind |-> "ok", err |-> "", val |-> SubSeq(data, start + 1, end)]

Min(a, b) == IF a <= b THEN a ELSE b

\* Paginator::paginate: Ok(None), Err, Ok(Some(slice)), or a panic
paginate(data, max_per_page, page_number, checked) ==
    IF max_per_page = 0 THEN PageNone
    ELSE LET total_items == Len(data)
             total_pages == compute_total_pages(total_items, max_per_page, checked)
             start == Usize(page_number * max_per_page, checked)
             sum == Usize(start.val + max_per_page, checked)
         IN IF total_pages.panic THEN PagePanic
            ELSE IF total_pages.val # 0 /\ page_number >= total_pages.val THEN PageErr
            ELSE IF start.panic \/ sum.panic THEN PagePanic
            ELSE Slice(data, start.val, Min(sum.val, total_items))

\* Paginator::paginate applied to the arguments drawn at the start
Paginate ==
    /\ pg.res.kind = "uncalled"
    /\ pg' = [pg EXCEPT !.res = paginate(pg.data, pg.max_per_page, pg.page_number,
                                         overflow_checks)]
    /\ UNCHANGED <<fs, fschanges, sample, by_id, by_tag, sorted_ids, cache, pc, loc,
                   ret, old, obs, overflow_checks, stale_window, cache_log>>

\* Paginator::compute_total_pages applied to the number of items and the page
\* size drawn at the start (get_article_summary_page_count over that many ids)
CountPages ==
    /\ pg.res.kind = "uncalled"
    /\ LET n == compute_total_pages(Len(pg.data), pg.max_per_page, overflow_checks)
       IN pg' = [pg EXCEPT !.res = IF n.panic THEN PagePanic
                                   ELSE [kind |-> "count", err |-> "", val |-> <<n.val>>]]
    /\ UNCHANGED <<fs, fschanges, sample, by_id, by_tag, sorted_ids, cache, pc, loc,
                   ret, old, obs, overflow_checks, stale_window, cache_log>>

\* ------------------------------------------------------------ ArticleCache

CacheHas(c, id) == \E i \in 1..Len(c) : c[i].id = id

CacheVal(c, id) == c[CHOOSE i \in 1..Len(c) : c[i].id = id].art

CacheWithout(c, id) == LET Other(e) == e.id # id IN SelectSeq(c, Other)

cache_get_miss(c, id) == [hit |-> FALSE, art |-> None, cache |-> c]

cache_get_no_touch(c, id) ==
    IF CacheHas(c, id)
    THEN [hit |-> TRUE, art |-> Some(CacheVal(c, id)), cache |-> c]
    ELSE [hit |-> FALSE, art |-> None, cache |-> c]

\* LruCache::get: a hit moves the entry to the most recently used end
cache_get(c, id) ==
    IF CacheHas(c, id)
    THEN [hit |-> TRUE, art |-> Some(CacheVal(c, id)),
          cache |-> CacheWithout(c, id) \o <<[id |-> id, art |-> CacheVal(c, id)]>>]
    ELSE [hit |-> FALSE, art |-> None, cache |-> c]

cache_put_nothing(c, id, art) == c

cache_put_if_absent(c, id, art) ==
    IF CacheHas(c, id) THEN c
    ELSE IF Len(c) >= Capacity THEN Tail(c) \o <<[id |-> id, art |-> art]>>
    ELSE c \o <<[id |-> id, art |-> art]>>

\* LruCache::put: replaces the entry of a cached id; else evicts the least
\* recently used entry of a full cache; the entry becomes the most recent
cache_put(c, id, art) ==
    IF CacheHas(c, id) THEN CacheWithout(c, id) \o <<[id |-> id, art |-> art]>>
    ELSE IF Len(c) >= Capacity THEN Tail(c) \o <<[id |-> id, art |-> art]>>
    ELSE c \o <<[id |-> id, art |-> art]>>

\* the ids and articles handed to the ArticleCache alone
CacheIds == 0..Capacity

CacheArticles(id) ==
    {Article(Metainfo(id, <<>>, "body.md", <<>>, <<>>), Render(body)) : body \in {1, 2}}

\* the id cache_put(c, id, _) drops to make room: Some(id) or None
Evicted(c, id) ==
    IF ~CacheHas(c, id) /\ Len(c) >= Capacity THEN Some(Head(c).id) ELSE None

CacheCall(op, id, art, res, evicted) ==
    [op |-> op, id |-> id, art |-> art, res |-> res, evicted |-> evicted]

\* ArticleCache::put(article_id, article)
CachePut(id, art) ==
    /\ Len(cache_log) < MaxCacheCalls
    /\ cache' = cache_put(cache, id, art)
    /\ cache_log' = Append(cache_log, CacheCall("put", id, Some(art), None, Evicted(cache, id)))
    /\ UNCHANGED <<fs, fschanges, sample, by_id, by_tag, sorted_ids, pc, loc, ret, old,
                   obs, pg, overflow_checks, stale_window>>

\* ArticleCache::get(article_id)
CacheGet(id) ==
    /\ Len(cache_log) < MaxCacheCalls
    /\ cache' = cache_get(cache, id).cache
    /\ cache_log' = Append(cache_log, CacheCall("get", id, None, cache_get(cache, id).art, None))
    /\ UNCHANGED <<fs, fschanges, sample, by_id, by_tag, sorted_ids, pc, loc, ret, old,
                   obs, pg, overflow_checks, stale_window>>

\* ArticleCache::clear()
CacheClear ==
    /\ Len(cache_log) < MaxCacheCalls
    /\ cache' = <<>>
    /\ cache_log' = Append(cache_log, CacheCall("clear", 0, None, None, None))
    /\ UNCHANGED <<fs, fschanges, sample, by_id, by_tag, sorted_ids, pc, loc, ret, old,
                   obs, pg, overflow_checks, stale_window>>

\* ----------------------------------------- ArticleStorage: loading a body

\* load_article: the directory named after the id must exist and hold the
\* body file the Metainfo names, and read_file_as_string must succeed
load_article(m) ==
    LET name == to_string(m.id)
        e == IF name \in Names THEN fs.dirs[name] ELSE Absent
    IN IF e.kind # "dir" THEN [ok |-> FALSE, err |-> "ItemDirectoryMissing", art |-> None]
       ELSE IF e.fpath # m.markdown_path
            THEN [ok |-> FALSE, err |-> "MissingBodyFile", art |-> None]
       ELSE IF e.body = Unreadable
            THEN [ok |-> FALSE, err |-> "ReadError", art |-> None]
       ELSE [ok |-> TRUE, err |-> "", art |-> Some(Article(m, Render(e.body)))]

\* ------------------------------------------ get_article / refresh_article

Cached == "Cached"

AlwaysCached == "Cached"

NotCached == "NotCached"

GetOk(op, id, art, status) == Ret(op, "ok", "", <<art, status>>, id, "")

GetErr(op, id, e) == Ret(op, "err", e, <<>>, id, "")

\* get_article(id): the sample short-circuit, then the cache read
GetArticleBegin(r, id) ==
    /\ pc[r] = "idle"
    /\ Constructed
    /\ IF id = 0 /\ sample
       THEN /\ Returns(r, GetOk("get_article", id, SAMPLE_ARTICLE, NotCached))
            /\ cache' = cache
       ELSE LET g == cache_get(cache, id)
            IN /\ cache' = g.cache
               /\ IF g.hit
                  THEN Returns(r, GetOk("get_article", id, g.art[1], Cached))
                  ELSE Goes(r, "lookup", [NoLoc EXCEPT !.op = "get_article", !.id = id])
    /\ UNCHANGED <<fs, fschanges, sample, by_id, by_tag, sorted_ids, old, obs, pg,
                   overflow_checks, stale_window, cache_log>>

RefreshArticleBeginInvalidates(r, id) ==
    /\ pc[r] = "idle"
    /\ Constructed
    /\ Goes(r, "lookup", [NoLoc EXCEPT !.op = "refresh_article", !.id = id])
    /\ cache' = CacheWithout(cache, id)
    /\ UNCHANGED <<fs, fschanges, sample, by_id, by_tag, sorted_ids, old, obs,
                   pg, overflow_checks, stale_window, cache_log>>

\* refresh_article(id) goes to the index at once
RefreshArticleBegin(r, id) ==
    /\ pc[r] = "idle"
    /\ Constructed
    /\ Goes(r, "lookup", [NoLoc EXCEPT !.op = "refresh_article", !.id = id])
    /\ UNCHANGED <<fs, fschanges, sample, by_id, by_tag, sorted_ids, cache, old, obs,
                   pg, overflow_checks, stale_window, cache_log>>

\* load_article_from_filesystem: index.get_metainfo(id), NotFound when absent;
\* the sample article needs no file
LookupMetainfo(r) ==
    /\ pc[r] = "lookup"
    /\ LET m == get_metainfo(loc[r].id)
       IN IF ~IsSome(m) THEN Returns(r, GetErr(loc[r].op, loc[r].id, "NotFound"))
          ELSE IF loc[r].id = 0 /\ sample
               THEN Goes(r, "put", [loc[r] EXCEPT !.art = Some(SAMPLE_ARTICLE)])
          ELSE Goes(r, "load", [loc[r] EXCEPT !.m = m])
    /\ UNCHANGED <<fs, fschanges, sample, by_id, by_tag, sorted_ids, cache, old, obs,
                   pg, overflow_checks, stale_window, cache_log>>

\* load_article_from_filesystem: storage.load_article(&metainfo)
LoadBody(r) ==
    /\ pc[r] = "load"
    /\ LET a == load_article(loc[r].m[1])
       IN IF a.ok
          THEN Goes(r, "put", [loc[r] EXCEPT !.art = a.art, !.m = None])
          ELSE Returns(r, GetErr(loc[r].op, loc[r].id, a.err))
    /\ UNCHANGED <<fs, fschanges, sample, by_id, by_tag, sorted_ids, cache, old, obs,
                   pg, overflow_checks, stale_window, cache_log>>

\* refresh_article returns Ok(article)
RefreshOk(id, art) == Ret("refresh_article", "ok", "", <<art>>, id, "")

\* cache.put(article_id, article.clone()), and the call returns the article
\* (get_article: tagged NotCached)
PutArticle(r) ==
    /\ pc[r] = "put"
    /\ cache' = cache_put(cache, loc[r].id, loc[r].art[1])
    /\ IF loc[r].op = "get_article"
       THEN Returns(r, GetOk("get_article", loc[r].id, loc[r].art[1], NotCached))
       ELSE Returns(r, RefreshOk(loc[r].id, loc[r].art[1]))
    /\ UNCHANGED <<fs, fschanges, sample, by_id, by_tag, sorted_ids, old, obs, pg,
                   overflow_checks, stale_window, cache_log>>

\* clear_cache()
ClearCache ==
    /\ Constructed
    /\ cache' = <<>>
    /\ stale_window' = (\E w \in {"w1", "w2"} : pc[w] # "idle")
    /\ UNCHANGED <<fs, fschanges, sample, by_id, by_tag, sorted_ids, pc, loc, ret, old,
                   obs, pg, overflow_checks, cache_log>>

ClearCacheKeepsEntries(r) ==
    /\ pc[r] = "idle"
    /\ Constructed
    /\ cache' = cache
    /\ stale_window' = (\E w \in {"w1", "w2"} : pc[w] # "idle")
    /\ Returns(r, Ret("clear_cache", "ok", "", <<>>, 0, ""))
    /\ UNCHANGED <<fs, fschanges, sample, by_id, by_tag, sorted_ids, old, obs, pg,
                   overflow_checks, cache_log>>

\* clear_cache() called by r: self.cache.clear(), and the call returns ()
ClearCacheBy(r) ==
    /\ pc[r] = "idle"
    /\ Constructed
    /\ cache' = <<>>
    /\ stale_window' = (\E w \in {"w1", "w2"} : pc[w] # "idle")
    /\ Returns(r, Ret("clear_cache", "ok", "", <<>>, 0, ""))
    /\ UNCHANGED <<fs, fschanges, sample, by_id, by_tag, sorted_ids, old, obs, pg,
                   overflow_checks, cache_log>>

\* ------------------------------------------------------- listing by a tag

ListOk(op, tag, out) == Ret(op, "ok", "", out, 0, tag)

\* what a listing does with the ids it has chosen: return at once when there
\* are none, else look each one up (get_summaries_from_ids)
Summarise(r, op, tag, ids) ==
    IF ids = <<>> THEN Returns(r, ListOk(op, tag, <<>>))
    ELSE Goes(r, "summaries", [NoLoc EXCEPT !.op = op, !.tag = tag, !.ids = ids])

ListByTagBeginCreatesEntry(r, tag) ==
    /\ pc[r] = "idle"
    /\ Constructed
    /\ Summarise(r, "list_by_tag", tag, get_ids_by_tag(tag))
    /\ by_tag' = IF IsSome(by_tag[tag]) THEN by_tag ELSE [by_tag EXCEPT ![tag] = Some(<<>>)]
    /\ UNCHANGED <<fs, fschanges, sample, by_id, sorted_ids, cache, old, obs,
                   pg, overflow_checks, stale_window, cache_log>>

\* list_article_summaries_by_tag(tag): index.get_ids_by_tag(tag)
ListByTagBegin(r, tag) ==
    /\ pc[r] = "idle"
    /\ Constructed
    /\ Summarise(r, "list_by_tag", tag, get_ids_by_tag(tag))
    /\ UNCHANGED <<fs, fschanges, sample, by_id, by_tag, sorted_ids, cache, old, obs,
                   pg, overflow_checks, stale_window, cache_log>>

PageCallFirstPage(data, max_per_page, page_number) ==
    [data |-> data, max_per_page |-> max_per_page, page_number |-> page_number,
     res |-> paginate(data, max_per_page, 0, overflow_checks)]

\* the call a listing makes to Paginator::paginate, kept in pg
PageCall(data, max_per_page, page_number) ==
    [data |-> data, max_per_page |-> max_per_page, page_number |-> page_number,
     res |-> paginate(data, max_per_page, page_number, overflow_checks)]

\* a paginated listing of ids: Ok(vec![]) when paginate gives None, its error
\* (or panic) passed on, else the summaries of the page's ids
ListPage(r, op, tag, ids, max_per_page, page_number) ==
    LET call == PageCall(ids, max_per_page, page_number)
        page == call.res
    IN /\ pg' = call
       /\ IF page.kind = "ok" THEN Summarise(r, op, tag, page.val)
          ELSE IF page.kind = "none" THEN Returns(r, ListOk(op, tag, <<>>))
          ELSE Returns(r, Ret(op, page.kind, page.err, <<>>, 0, tag))

\* list_article_summaries_by_tag_paginated(tag, max_per_page, page_number)
ListByTagPaginatedBegin(r, tag, max_per_page, page_number) ==
    /\ pc[r] = "idle"
    /\ Constructed
    /\ ListPage(r, "list_by_tag", tag, get_ids_by_tag(tag), max_per_page, page_number)
    /\ UNCHANGED <<fs, fschanges, sample, by_id, by_tag, sorted_ids, cache, old, obs,
                   overflow_checks, stale_window, cache_log>>

\* list_article_summaries_paginated(max_per_page, page_number)
ListAllPaginatedBegin(r, max_per_page, page_number) ==
    /\ pc[r] = "idle"
    /\ Constructed
    /\ ListPage(r, "list_all", "", get_all_ids, max_per_page, page_number)
    /\ UNCHANGED <<fs, fschanges, sample, by_id, by_tag, sorted_ids, cache, old, obs,
                   overflow_checks, stale_window, cache_log>>

\* one turn of get_summaries_from_ids' loop: index.get_metainfo(id), and a
\* summary of what it finds; after the last id the listing returns
SummariesStep(r) ==
    /\ pc[r] = "summaries"
    /\ LET m == get_metainfo(Head(loc[r].ids))
           out == IF IsSome(m) THEN loc[r].out \o <<ArticleSummary(m[1])>> ELSE loc[r].out
       IN IF Tail(loc[r].ids) = <<>>
          THEN Returns(r, ListOk(loc[r].op, loc[r].tag, out))
          ELSE Goes(r, "summaries", [loc[r] EXCEPT !.ids = Tail(@), !.out = out])
    /\ UNCHANGED <<fs, fschanges, sample, by_id, by_tag, sorted_ids, cache, old, obs,
                   pg, overflow_checks, stale_window, cache_log>>

\* ------------------------------------------------------------- the search

\* what a search does once search_articles has its results: search_articles
\* returns them; search_articles_paginated returns the page paginate gives
\* (nothing when it gives None, its error or panic passed on);
\* get_search_article_page_count returns compute_total_pages of their number
SearchEnd(r, op, results, max_per_page, page_number) ==
    IF op = "search" THEN
        /\ Returns(r, ListOk(op, "", results))
        /\ pg' = pg
    ELSE IF op = "search_paginated" THEN
        LET call == PageCall(results, max_per_page, page_number)
            page == call.res
        IN /\ pg' = call
           /\ IF page.kind \in {"ok", "none"} THEN Returns(r, ListOk(op, "", page.val))
              ELSE Returns(r, Ret(op, page.kind, page.err, <<>>, 0, ""))
    ELSE
        LET n == compute_total_pages(Len(results), max_per_page, overflow_checks)
            counted == IF n.panic THEN PagePanic
                       ELSE [kind |-> "count", err |-> "", val |-> <<n.val>>]
        IN /\ pg' = [data |-> results, max_per_page |-> max_per_page,
                     page_number |-> 0, res |-> counted]
           /\ Returns(r, Ret(op, IF n.panic THEN "panic" ELSE "ok", "", counted.val, 0, ""))

\* search_articles(query), alone or for search_articles_paginated or
\* get_search_article_page_count (op): index.get_all_ids()
SearchBegin(r, op, query, max_per_page, page_number) ==
    /\ pc[r] = "idle"
    /\ Constructed
    /\ IF get_all_ids = <<>>
       THEN SearchEnd(r, op, <<>>, max_per_page, page_number)
       ELSE /\ Goes(r, "search",
                    [NoLoc EXCEPT !.op = op, !.ids = get_all_ids, !.query = query,
                                  !.max_per_page = max_per_page,
                                  !.page_number = page_number])
            /\ pg' = pg
    /\ UNCHANGED <<fs, fschanges, sample, by_id, by_tag, sorted_ids, cache, old, obs,
                   overflow_checks, stale_window, cache_log>>

\* one turn of search_articles' loop: index.get_metainfo(id), and a summary of
\* a descriptor whose title or description contains the query
SearchStep(r) ==
    /\ pc[r] = "search"
    /\ LET m == get_metainfo(Head(loc[r].ids))
           match == /\ IsSome(m)
                    /\ \/ contains(m[1].title, loc[r].query)
                       \/ contains(m[1].description, loc[r].query)
           out == IF match THEN loc[r].out \o <<ArticleSummary(m[1])>> ELSE loc[r].out
       IN IF Tail(loc[r].ids) = <<>>
          THEN SearchEnd(r, loc[r].op, out, loc[r].max_per_page, loc[r].page_number)
          ELSE /\ Goes(r, "search", [loc[r] EXCEPT !.ids = Tail(@), !.out = out])
               /\ pg' = pg
    /\ UNCHANGED <<fs, fschanges, sample, by_id, by_tag, sorted_ids, cache, old, obs,
                   overflow_checks, stale_window, cache_log>>

\* ---------------------------------------------------------- the page counts

\* get_article_summary_page_count(max_per_page) (op "page_count", the ids are
\* get_all_ids) and get_article_summary_by_tag_page_count(tag, max_per_page)
\* (op "page_count_by_tag", the ids are get_ids_by_tag(tag))
PageCount(r, op, tag, ids, max_per_page) ==
    /\ pc[r] = "idle"
    /\ Constructed
    /\ LET n == compute_total_pages(Len(ids), max_per_page, overflow_checks)
           counted == IF n.panic THEN PagePanic
                      ELSE [kind |-> "count", err |-> "", val |-> <<n.val>>]
       IN /\ pg' = [data |-> ids, max_per_page |-> max_per_page, page_number |-> 0,
                    res |-> counted]
          /\ Returns(r, Ret(op, IF n.panic THEN "panic" ELSE "ok", "", counted.val, 0, tag))
    /\ UNCHANGED <<fs, fschanges, sample, by_id, by_tag, sorted_ids, cache, old, obs,
                   overflow_checks, stale_window, cache_log>>

\* ------------------------------------------- single reads during a rebuild

Rebuilding == \E w \in {"w1", "w2"} : pc[w] # "idle"

\* index.get_metainfo(id), get_all_ids() or get_ids_by_tag(tag) by some other
\* caller while load_index runs; the first such read is kept in obs
ReadDuringRebuild ==
    /\ Constructed
    /\ Rebuilding
    /\ obs.kind = "none"
    /\ \/ \E id \in ArticleIds :
            obs' = [kind |-> "by_id", id |-> id, tag |-> "", val |-> get_metainfo(id)]
       \/ obs' = [kind |-> "sorted_ids", id |-> 0, tag |-> "", val |-> get_all_ids]
       \/ \E tag \in Tags :
            obs' = [kind |-> "by_tag", id |-> 0, tag |-> tag, val |-> get_ids_by_tag(tag)]
    /\ UNCHANGED <<fs, fschanges, sample, by_id, by_tag, sorted_ids, cache, pc, loc,
                   ret, old, pg, overflow_checks, stale_window, cache_log>>

\* --------------------------------------------------------- the environment

\* somebody creates, replaces or removes one entry below the source directory
FsWrite(n, e) ==
    /\ fschanges < MaxFsChanges
    /\ fs.dirs[n] # e
    /\ fs' = [fs EXCEPT !.dirs[n] = e]
    /\ fschanges' = fschanges + 1
    /\ UNCHANGED <<sample, by_id, by_tag, sorted_ids, cache, pc, loc, ret, old, obs,
                   pg, overflow_checks, stale_window, cache_log>>

\* the source directory becomes unreadable (removed, permissions), or readable
RootChange ==
    /\ fschanges < MaxFsChanges
    /\ fs' = [fs EXCEPT !.root = ~@]
    /\ fschanges' = fschanges + 1
    /\ UNCHANGED <<sample, by_id, by_tag, sorted_ids, cache, pc, loc, ret, old, obs,
                   pg, overflow_checks, stale_window, cache_log>>

\* ---------------------------------------------------------------- locking

\* the locks of the engine: the cache's Mutex, the DashMaps' (taken as one
\* lock a map: every key in one shard) and the Mutex of sorted_ids
Locks == {"cache", "by_id", "by_tag", "sorted_ids"}

IndexLocks == {"by_id", "by_tag", "sorted_ids"}

\* what an operation does to the locks and the store, in program order: a
\* sequence of acquisitions, releases and filesystem reads
Acq(l) == <<"acq", l>>

Rel(l) == <<"rel", l>>

Io(what) == <<"io", what>>

\* a guard taken and dropped with nothing else in between
Crit(l) == <<Acq(l), Rel(l)>>

RECURSIVE Times(_, _)
Times(n, prog) == IF n = 0 THEN <<>> ELSE prog \o Times(n - 1, prog)

\* ArticleCache::get / put / clear: the guard lives to the end of the method
cache_locks == Crit("cache")

\* ArticleIndex::get_metainfo: the map's Ref is dropped inside the method
get_metainfo_locks == Crit("by_id")

get_all_ids_locks == Crit("sorted_ids")

get_ids_by_tag_locks == Crit("by_tag")

\* ArticleIndex::clear
index_clear_locks == Crit("by_id") \o Crit("by_tag") \o Crit("sorted_ids")

\* ArticleIndex::add_metainfo of a descriptor with ntags tags
add_metainfo_locks(ntags) == Crit("by_id") \o Times(ntags, Crit("by_tag"))

\* ArticleIndex::sort_indices: by_id.iter() is consumed by collect() before
\* sorted_ids is locked; by_tag.iter_mut() holds the map while it sorts
sort_indices_locks == Crit("by_id") \o Crit("sorted_ids") \o Crit("by_tag")

\* ArticleStorage::scan_articles: read_dir, then for each entry its reads
\* (is_dir, metainfo.toml) and, for an article, add_metainfo
scan_articles_locks(entries, ntags) ==
    <<Io("read_dir")>> \o Times(entries, <<Io("entry")>> \o add_metainfo_locks(ntags))

\* load_index: the paths that return Ok, and the one where read_dir fails
load_index_locks(with_sample, entries, ntags) ==
    index_clear_locks
        \o (IF with_sample THEN add_metainfo_locks(2) ELSE <<>>)
        \o scan_articles_locks(entries, ntags)
        \o sort_indices_locks

load_index_err_locks(with_sample) ==
    index_clear_locks
        \o (IF with_sample THEN add_metainfo_locks(2) ELSE <<>>)
        \o <<Io("read_dir")>>

\* load_article_from_filesystem: the index lookup, then the body's read
load_article_from_filesystem_locks == get_metainfo_locks \o <<Io("load_article")>>

refresh_article_locks == load_article_from_filesystem_locks \o cache_locks

get_article_locks_over_load ==
    <<Acq("cache")>> \o load_article_from_filesystem_locks \o <<Rel("cache")>>

\* get_article on a miss: cache.get, the load, cache.put (a hit ends after
\* cache.get, a failed load before cache.put)
get_article_locks == cache_locks \o load_article_from_filesystem_locks \o cache_locks

\* a listing of n ids (get_summaries_from_ids), of all articles or of a tag,
\* and a search over n ids
list_locks(n) == get_all_ids_locks \o Times(n, get_metainfo_locks)

list_by_tag_locks(n) == get_ids_by_tag_locks \o Times(n, get_metainfo_locks)

\* the operations of the facade as lock programs
IndexPrograms ==
    {load_index_locks(sample, entries, 1) : entries \in 0..1}
        \cup {load_index_err_locks(sample)}

CallerPrograms ==
    {get_article_locks, refresh_article_locks, cache_locks}
        \cup {list_locks(n) : n \in 0..1}
        \cup {list_by_tag_locks(n) : n \in 0..1}

\* p is at an acquisition of a lock somebody holds
Blocked(p) ==
    /\ pc[p] = "run"
    /\ Head(loc[p].prog)[1] = "acq"
    /\ \E q \in Procs : Head(loc[p].prog)[2] \in loc[q].held

\* p calls an operation
RunBegin(p, prog) ==
    /\ pc[p] = "idle"
    /\ Goes(p, "run", [NoLoc EXCEPT !.op = "run", !.prog = prog])
    /\ UNCHANGED <<fs, fschanges, sample, by_id, by_tag, sorted_ids, cache, old, obs,
                   pg, overflow_checks, stale_window, cache_log>>

\* p goes on with the rest of its operation, or returns
RunOn(p, held) ==
    IF Tail(loc[p].prog) = <<>>
    THEN Returns(p, Ret("run", "ok", "", <<>>, 0, ""))
    ELSE Goes(p, "run", [loc[p] EXCEPT !.prog = Tail(@), !.held = held])

\* lock(): waits while somebody holds the lock (p itself included)
Acquire(p) ==
    /\ pc[p] = "run"
    /\ Head(loc[p].prog)[1] = "acq"
    /\ ~Blocked(p)
    /\ RunOn(p, loc[p].held \cup {Head(loc[p].prog)[2]})
    /\ UNCHANGED <<fs, fschanges, sample, by_id, by_tag, sorted_ids, cache, old, obs,
                   pg, overflow_checks, stale_window, cache_log>>

\* the guard is dropped
Release(p) ==
    /\ pc[p] = "run"
    /\ Head(loc[p].prog)[1] = "rel"
    /\ RunOn(p, loc[p].held \ {Head(loc[p].prog)[2]})
    /\ UNCHANGED <<fs, fschanges, sample, by_id, by_tag, sorted_ids, cache, old, obs,
                   pg, overflow_checks, stale_window, cache_log>>

\* a filesystem read of the store
StoreRead(p) ==
    /\ pc[p] = "run"
    /\ Head(loc[p].prog)[1] = "io"
    /\ RunOn(p, loc[p].held)
    /\ UNCHANGED <<fs, fschanges, sample, by_id, by_tag, sorted_ids, cache, old, obs,
                   pg, overflow_checks, stale_window, cache_log>>

\* ------------------------------------------------------ the specifications

\* what the environment puts below the source directory in Spec
FsChoices(n) ==
    CASE n = <<"0">> -> {Absent, Item(0, <<"a">>, 1)}
      [] n = <<"1">> -> {Absent, Item(1, <<"a">>, 1), Item(1, <<"b">>, 1)}
      [] n = <<"0", "1">> -> {Absent, Item(1, <<"a">>, 1)}
      [] OTHER -> {Absent}

EmptyFs == [root |-> TRUE, dirs |-> [n \in Names |-> Absent]]

\* Articles::new: empty index, empty cache, and w1 about to run load_index;
\* nobody else has the engine before load_index has returned
InitEngine ==
    /\ fschanges = 0
    /\ by_id = EmptyById
    /\ by_tag = EmptyByTag
    /\ sorted_ids = <<>>
    /\ cache = <<>>
    /\ pc = [p \in Procs |-> "idle"]
    /\ loc = [p \in Procs |-> NoLoc]
    /\ ret = [p \in Procs |-> NoRet]
    /\ old = [by_id |-> EmptyById, by_tag |-> EmptyByTag, sorted_ids |-> <<>>]
    /\ obs = NoObs
    /\ stale_window = FALSE
    /\ cache_log = <<>>

Init ==
    /\ InitEngine
    /\ fs = EmptyFs
    /\ sample \in BOOLEAN
    /\ pg = NoPg
    /\ overflow_checks = FALSE

\* one rebuilding caller (w1), single reads by others, and the environment
Next ==
    \/ LoadIndexBegin("w1")
    \/ LoadIndexStep("w1")
    \/ \E n \in Names : \E e \in FsChoices(n) : FsWrite(n, e)
    \/ RootChange
    \/ ReadDuringRebuild

Spec == Init /\ [][Next]_vars

\* the same with a caller r1 that fetches articles
NextFetch ==
    \/ LoadIndexBegin("w1")
    \/ LoadIndexStep("w1")
    \/ \E n \in Names : \E e \in FsChoices(n) : FsWrite(n, e)
    \/ \E id \in ArticleIds : GetArticleBegin("r1", id)
    \/ LookupMetainfo("r1")
    \/ LoadBody("r1")
    \/ PutArticle("r1")

SpecFetch == Init /\ [][NextFetch]_vars

\* what the environment puts below the source directory in SpecRefresh: item 1
\* comes, goes, and has its body rewritten
RefreshChoices == {Absent, Item(1, <<"a">>, 1), Item(1, <<"a">>, 2)}

\* a caller r1 of get_article, refresh_article and clear_cache while w1
\* rebuilds, item 1 changes and the source directory comes and goes
NextRefresh ==
    \/ LoadIndexBegin("w1")
    \/ LoadIndexStep("w1")
    \/ \E e \in RefreshChoices : FsWrite(<<"1">>, e)
    \/ RootChange
    \/ \E id \in {0, 1} : GetArticleBegin("r1", id)
    \/ \E id \in {0, 1} : RefreshArticleBegin("r1", id)
    \/ LookupMetainfo("r1")
    \/ LoadBody("r1")
    \/ PutArticle("r1")
    \/ ClearCache

SpecRefresh == Init /\ [][NextRefresh]_vars

\* a caller r1 that lists the articles of a tag, plainly or by pages, while w1
\* rebuilds and item 1 is created, retagged or removed
NextList ==
    \/ LoadIndexBegin("w1")
    \/ LoadIndexStep("w1")
    \/ \E e \in FsChoices(<<"1">>) : FsWrite(<<"1">>, e)
    \/ \E tag \in Tags : ListByTagBegin("r1", tag)
    \/ \E tag \in Tags, max_per_page \in 1..2, page_number \in 0..1 :
          ListByTagPaginatedBegin("r1", tag, max_per_page, page_number)
    \/ SummariesStep("r1")

SpecList == Init /\ [][NextList]_vars

\* two callers of refresh_index() (w1 after it has constructed the engine, and
\* w2) over a filesystem nobody changes: item 1, and no directory 0
ConcFs == [EmptyFs EXCEPT !.dirs[<<"1">>] = Item(1, <<"a">>, 1)]

InitConc ==
    /\ InitEngine
    /\ fs = ConcFs
    /\ sample \in BOOLEAN
    /\ pg = NoPg
    /\ overflow_checks = FALSE

NextConc ==
    \/ LoadIndexBegin("w1")
    \/ LoadIndexStep("w1")
    \/ SortTagsEnd("w1")
    \/ LoadIndexBegin("w2")
    \/ LoadIndexStep("w2")
    \/ SortTagsEnd("w2")

SpecConc == InitConc /\ [][NextConc]_vars

\* the paginator alone: a slice of up to MaxLen ids, every usize page size and
\* page number, either build profile
InitPage ==
    /\ InitEngine
    /\ fs = EmptyFs
    /\ sample = FALSE
    /\ overflow_checks \in BOOLEAN
    /\ \E n \in 0..MaxLen, s \in 0..(UsizeMod - 1), p \in 0..(UsizeMod - 1) :
          pg = [NoPg EXCEPT !.data = [i \in 1..n |-> i], !.max_per_page = s,
                            !.page_number = p]

NextPage == Paginate

SpecPage == InitPage /\ [][NextPage]_vars

\* two callers r1 and r2 of get_article(1) over the index Articles::new has
\* built, while the body of item 1 is rewritten on disk
InitMiss ==
    /\ InitEngine
    /\ fs = ConcFs
    /\ sample \in BOOLEAN
    /\ pg = NoPg
    /\ overflow_checks = FALSE

NextMiss ==
    \/ (~Constructed /\ LoadIndexBegin("w1"))
    \/ LoadIndexStep("w1")
    \/ \E body \in {1, 2} : FsWrite(<<"1">>, Item(1, <<"a">>, body))
    \/ \E r \in {"r1", "r2"} :
          \/ GetArticleBegin(r, 1)
          \/ LookupMetainfo(r)
          \/ LoadBody(r)
          \/ PutArticle(r)

SpecMiss == InitMiss /\ [][NextMiss]_vars

\* the ArticleCache alone: any sequence of put, get and clear
NextCache ==
    \/ \E id \in CacheIds : \E art \in CacheArticles(id) : CachePut(id, art)
    \/ \E id \in CacheIds : CacheGet(id)
    \/ CacheClear

SpecCache == Init /\ [][NextCache]_vars

\* the operations as lock programs: w1 rebuilds, r1 and r2 call the rest
NextLocks ==
    \/ \E prog \in IndexPrograms : RunBegin("w1", prog)
    \/ \E r \in {"r1", "r2"} : \E prog \in CallerPrograms : RunBegin(r, prog)
    \/ \E p \in Procs : Acquire(p) \/ Release(p) \/ StoreRead(p)

SpecLocks == Init /\ [][NextLocks]_vars

\* a caller r1 of the paginated listings, the search and the page counts, in
\* either build profile, while w1 rebuilds the index over item 1 (and the
\* sample article, when enabled): the index is empty, partly filled, unsorted
\* and complete in turn
PageSizes == {0, 1, 2}

PageNumbers == {0, UsizeMod - 1}

Queries == {<<>>, <<"b">>}

InitPaged ==
    /\ InitEngine
    /\ fs = ConcFs
    /\ sample \in BOOLEAN
    /\ pg = NoPg
    /\ overflow_checks \in BOOLEAN

NextPaged ==
    \/ LoadIndexBegin("w1")
    \/ LoadIndexStep("w1")
    \/ \E max_per_page \in PageSizes, page_number \in PageNumbers :
          \/ ListAllPaginatedBegin("r1", max_per_page, page_number)
          \/ \E tag \in Tags :
                ListByTagPaginatedBegin("r1", tag, max_per_page, page_number)
          \/ \E query \in Queries :
                SearchBegin("r1", "search_paginated", query, max_per_page, page_number)
    \/ \E max_per_page \in PageSizes :
          \/ PageCount("r1", "page_count", "", get_all_ids, max_per_page)
          \/ \E tag \in Tags :
                PageCount("r1", "page_count_by_tag", tag, get_ids_by_tag(tag), max_per_page)
          \/ \E query \in Queries :
                SearchBegin("r1", "search_page_count", query, max_per_page, 0)
    \/ SummariesStep("r1")
    \/ SearchStep("r1")

SpecPaged == InitPaged /\ [][NextPaged]_vars

\* a single caller r1 of get_article and clear_cache over items 0 (or the
\* sample) and 1, while w1 rebuilds the index; id 2 is in no index
ClearFs == [ConcFs EXCEPT !.dirs[<<"0">>] = Item(0, <<"a">>, 1)]

InitClear ==
    /\ InitEngine
    /\ fs = ClearFs
    /\ sample \in BOOLEAN
    /\ pg = NoPg
    /\ overflow_checks = FALSE

NextClear ==
    \/ LoadIndexBegin("w1")
    \/ LoadIndexStep("w1")
    \/ \E id \in ArticleIds : GetArticleBegin("r1", id)
    \/ LookupMetainfo("r1")
    \/ LoadBody("r1")
    \/ PutArticle("r1")
    \/ ClearCacheBy("r1")

SpecClear == InitClear /\ [][NextClear]_vars

\* what lies below the source directory in SpecScan: well-formed items, two
\* directories of the same id ("1" and "01"), a plain file, a directory
\* without metainfo.toml or with one that does not parse, a name that is no
\* number, a record whose id is another directory's, and a record whose id
\* differs from its directory's by I32Mod
ScanChoices(n) ==
    CASE n = <<"0">> -> {Absent, Item(0, <<"a">>, 1)}
      [] n = <<"1">> -> {Item(1, <<"b", "a">>, 1), Item(1 + I32Mod, <<"a">>, 1),
                         DirNoMeta, DirBadMeta, FileEntry}
      [] n = <<"0", "1">> -> {Absent, Item(1, <<"a">>, 1)}
      [] n = <<"2">> -> {Item(2, <<"a">>, 1), Item(1, <<"a">>, 1)}
      [] n = <<"x">> -> {Absent, Item(2, <<"b">>, 1)}

\* Articles::new and then refresh_index() calls by w1, one after the other,
\* over a filesystem that nobody changes
InitScan ==
    /\ InitEngine
    /\ fs \in [root : BOOLEAN, dirs : {d \in [Names -> UNION {ScanChoices(n) : n \in Names}] :
                                          \A n \in Names : d[n] \in ScanChoices(n)}]
    /\ sample \in BOOLEAN
    /\ pg = NoPg
    /\ overflow_checks = FALSE

NextScan ==
    \/ LoadIndexBegin("w1")
    \/ LoadIndexStep("w1")

SpecScan == InitScan /\ [][NextScan]_vars

\* a caller r1 of search_articles, and w1 rebuilding the index, one call at a
\* time, over items 1 ("ab", "c") and 2 ("c", "ba") and the sample article
\* when enabled, while the source directory comes and goes
SearchFs ==
    [EmptyFs EXCEPT !.dirs[<<"1">>] = ItemTitled(1, <<"a">>, 1, <<"a", "b">>, <<"c">>),
                    !.dirs[<<"2">>] = ItemTitled(2, <<"b">>, 1, <<"c">>, <<"b", "a">>)]

SearchQueries == {<<>>, <<"a">>, <<"c">>, <<"b", "a">>, <<"A">>, <<"a", "b", "c">>}

InitSearch ==
    /\ InitEngine
    /\ fs = SearchFs
    /\ sample \in BOOLEAN
    /\ pg = NoPg
    /\ overflow_checks = FALSE

NextSearch ==
    \/ (pc["r1"] = "idle" /\ LoadIndexBegin("w1"))
    \/ LoadIndexStep("w1")
    \/ RootChange
    \/ \E query \in SearchQueries :
          (pc["w1"] = "idle" /\ SearchBegin("r1", "search", query, 0, 0))
    \/ SearchStep("r1")

SpecSearch == InitSearch /\ [][NextSearch]_vars

\* a caller r1 of search_articles_paginated and get_search_article_page_count
\* over the index Articles::new has built from SearchFs, in either build
\* profile; the page sizes and page indexes: none, small ones, and the largest
\* usize
SearchPageSizes == {0, 1, 2, UsizeMod - 1}

SearchPageNumbers == {0, 1, UsizeMod - 1}

InitSearchPaged ==
    /\ InitEngine
    /\ fs = SearchFs
    /\ sample \in BOOLEAN
    /\ pg = NoPg
    /\ overflow_checks \in BOOLEAN

NextSearchPaged ==
    \/ (~Constructed /\ LoadIndexBegin("w1"))
    \/ LoadIndexStep("w1")
    \/ \E query \in SearchQueries : \E max_per_page \in SearchPageSizes :
          \/ SearchBegin("r1", "search_page_count", query, max_per_page, 0)
          \/ \E page_number \in SearchPageNumbers :
                SearchBegin("r1", "search_paginated", query, max_per_page, page_number)
    \/ SearchStep("r1")

SpecSearchPaged == InitSearchPaged /\ [][NextSearchPaged]_vars

\* a caller r1 of list_article_summaries_by_tag and
\* get_article_summary_by_tag_page_count, for tags the index knows and tags it
\* does not, while w1 rebuilds the index over item 1 (and the sample article)
NextTag ==
    \/ LoadIndexBegin("w1")
    \/ LoadIndexStep("w1")
    \/ \E tag \in Tags :
          \/ ListByTagBegin("r1", tag)
          \/ \E max_per_page \in PageSizes :
                PageCount("r1", "page_count_by_tag", tag, get_ids_by_tag(tag), max_per_page)
    \/ SummariesStep("r1")

SpecTag == InitConc /\ [][NextTag]_vars

\* the page count alone: every usize number of items and every usize page
\* size, either build profile
InitCount ==
    /\ InitEngine
    /\ fs = EmptyFs
    /\ sample = FALSE
    /\ overflow_checks \in BOOLEAN
    /\ \E n \in 0..(UsizeMod - 1), s \in 0..(UsizeMod - 1) :
          pg = [NoPg EXCEPT !.data = [i \in 1..n |-> i], !.max_per_page = s]

NextCount == CountPages

SpecCount == InitCount /\ [][NextCount]_vars

\* what becomes of item 1 below the source directory in SpecFail: removed,
\* left without its body file, left with a body file that cannot be read, or
\* restored
FailChoices ==
    {Absent, ItemNoBody(1, <<"a">>), ItemUnreadable(1, <<"a">>), Item(1, <<"a">>, 1)}

\* a single caller r1 of get_article and refresh_article over the index
\* Articles::new has built from items 0 and 1, for ids in the index and id 2,
\* which is not, while item 1 breaks on disk
NextFail ==
    \/ (~Constructed /\ LoadIndexBegin("w1"))
    \/ LoadIndexStep("w1")
    \/ \E e \in FailChoices : FsWrite(<<"1">>, e)
    \/ \E id \in ArticleIds : GetArticleBegin("r1", id)
    \/ \E id \in ArticleIds : RefreshArticleBegin("r1", id)
    \/ LookupMetainfo("r1")
    \/ LoadBody("r1")
    \/ PutArticle("r1")

SpecFail == InitClear /\ [][NextFail]_vars

\* the successive contents of item 1's body file in SpecStale: a rewrite puts
\* a later version in place of an earlier one, and the last one stays
BodyVersions == {1, 2}

LastVersion == CHOOSE v \in BodyVersions : \A u \in BodyVersions : u <= v

\* two callers r1 and r2 of get_article(1) and refresh_article(1) over the
\* index Articles::new has built, while the body of item 1 is rewritten on
\* disk with later versions
NextStale ==
    \/ (~Constructed /\ LoadIndexBegin("w1"))
    \/ LoadIndexStep("w1")
    \/ \E body \in BodyVersions :
          /\ body > fs.dirs[<<"1">>].body
          /\ FsWrite(<<"1">>, Item(1, <<"a">>, body))
    \/ \E r \in {"r1", "r2"} :
          \/ GetArticleBegin(r, 1)
          \/ RefreshArticleBegin(r, 1)
          \/ LookupMetainfo(r)
          \/ LoadBody(r)
          \/ PutArticle(r)

SpecStale == InitMiss /\ [][NextStale]_vars

\* ------------------------------------------------------------------ claims

\* w's last call was a load_index that has returned `kind`, and no other is
\* running
LoadReturned(w, kind) ==
    /\ pc[w] = "idle"
    /\ ret[w].op \in {"new", "refresh_index"}
    /\ ret[w].kind = kind

\* the ids of by_id's descriptors that carry tag t
Carrying(t) == {id \in Keys(by_id) : t \in Range(by_id[id][1].tags)}

\* C1: a refresh_index() that fails with the scan's I/O error leaves by_id,
\* by_tag and sorted_ids exactly as they were before the call.
C1_FailedRefreshKeepsIndex ==
    (pc["w1"] = "idle" /\ ret["w1"].op = "refresh_index" /\ ret["w1"].kind = "err")
        => /\ by_id = old.by_id
           /\ by_tag = old.by_tag
           /\ sorted_ids = old.sorted_ids

\* C3: after a load_index that returned Ok with no other rebuild running,
\* all_ids() is strictly ascending (hence free of duplicates) and holds exactly
\* the keys of by_id.
C3_AllIdsAreSortedKeys ==
    LoadReturned("w1", "ok")
        => /\ IsStrictlyAscending(get_all_ids)
           /\ Range(get_all_ids) = Keys(by_id)

\* a refresh_index() has returned Ok over an index of two or more items
C3_Witness ==
    /\ LoadReturned("w1", "ok")
    /\ ret["w1"].op = "refresh_index"
    /\ Cardinality(Keys(by_id)) >= 2
    /\ Len(get_all_ids) >= 2

\* C4: after a load_index that returned Ok with no other rebuild running, for
\* every tag T ids_for_tag(T) is strictly ascending (each id once) and holds an
\* id exactly if by_id's descriptor of that id carries T.
C4_TagListsMatchById ==
    LoadReturned("w1", "ok")
        => \A t \in Tags :
              /\ IsStrictlyAscending(get_ids_by_tag(t))
              /\ Range(get_ids_by_tag(t)) = Carrying(t)

\* what the structure read in obs held when the rebuild began, and holds now
ObsOld ==
    CASE obs.kind = "by_id" -> old.by_id[obs.id]
      [] obs.kind = "sorted_ids" -> old.sorted_ids
      [] obs.kind = "by_tag" ->
            IF IsSome(old.by_tag[obs.tag]) THEN old.by_tag[obs.tag][1] ELSE <<>>

ObsNew ==
    CASE obs.kind = "by_id" -> get_metainfo(obs.id)
      [] obs.kind = "sorted_ids" -> get_all_ids
      [] obs.kind = "by_tag" -> get_ids_by_tag(obs.tag)

\* C5: a read of one index structure made while a refresh_index() runs returns
\* what the structure held before the rebuild or what it holds once the rebuild
\* has returned.
C5_ReadsSeeOldOrNew ==
    (pc["w1"] = "idle" /\ ret["w1"].op = "refresh_index" /\ obs.kind # "none")
        => (obs.val = ObsOld \/ obs.val = ObsNew)

\* C2: with no rebuild running, a get_article(id) made when by_id has no entry
\* for id fails with NotFound, whether it ends at the cache read or at the
\* index lookup.
C2_AbsentIdIsNotFound ==
    [][\A id \in ArticleIds :
          /\ (/\ pc["w1"] = "idle"
              /\ ~IsSome(get_metainfo(id))
              /\ GetArticleBegin("r1", id)
              /\ pc'["r1"] = "idle")
                 => (ret'["r1"].kind = "err" /\ ret'["r1"].err = "NotFound")
          /\ (/\ pc["w1"] = "idle"
              /\ loc["r1"].op = "get_article"
              /\ loc["r1"].id = id
              /\ ~IsSome(get_metainfo(id))
              /\ LookupMetainfo("r1"))
                 => (ret'["r1"].kind = "err" /\ ret'["r1"].err = "NotFound")]_vars

\* C6: once two concurrent refresh_index() calls over an unchanged filesystem
\* have both returned, sorted_ids is the ascending list of by_id's keys and
\* every tag's list holds each id carrying the tag once, ascending.
C6_ConcurrentRebuildsLeaveInvariant ==
    (/\ LoadReturned("w1", "ok")
     /\ LoadReturned("w2", "ok"))
        => /\ IsStrictlyAscending(get_all_ids)
           /\ Range(get_all_ids) = Keys(by_id)
           /\ \A t \in Tags :
                 /\ IsStrictlyAscending(get_ids_by_tag(t))
                 /\ Range(get_ids_by_tag(t)) = Carrying(t)

\* C7: every summary a list_summaries_by_tag(T) call returns describes an item
\* that carries T.
C7_ListedSummariesCarryTag ==
    (ret["r1"].op = "list_by_tag" /\ ret["r1"].kind = "ok")
        => \A i \in 1..Len(ret["r1"].val) :
              ret["r1"].tag \in Range(ret["r1"].val[i].tags)

\* the paginator has been called
Paginated == pg.res.kind # "uncalled"

\* ceil(n / s) over the integers
CeilDiv(n, s) == (n + s - 1) \div s

\* C8: a page of an empty sequence, for any page size >= 1 and any page index,
\* is a successful empty page.
C8_EmptySequencePagesAreEmpty ==
    (Paginated /\ pg.data = <<>> /\ pg.max_per_page >= 1)
        => (pg.res.kind = "ok" /\ pg.res.val = <<>>)

\* C9: of a non-empty sequence with page size >= 1, a page index >= total_pages
\* fails with PageOutOfRange and a page index < total_pages succeeds.
C9_PageRangeCheck ==
    (Paginated /\ pg.data # <<>> /\ pg.max_per_page >= 1)
        => IF pg.page_number >= CeilDiv(Len(pg.data), pg.max_per_page)
           THEN pg.res = PageErr
           ELSE pg.res.kind = "ok"

\* C10: page p < ceil(n/s) of n items with page size s >= 1 is exactly the
\* items at positions [p*s, min((p+1)*s, n)).
C10_PageIsTheSlice ==
    (/\ Paginated
     /\ pg.max_per_page >= 1
     /\ pg.page_number < CeilDiv(Len(pg.data), pg.max_per_page))
        => /\ pg.res.kind = "ok"
           /\ pg.res.val = SubSeq(pg.data, pg.page_number * pg.max_per_page + 1,
                                  Min((pg.page_number + 1) * pg.max_per_page,
                                      Len(pg.data)))

\* the paginated listings and the page counts
PagedListings == {"list_all", "list_by_tag", "search_paginated"}

PageCounts == {"page_count", "page_count_by_tag", "search_page_count"}

\* C11: with page size 0 every paginated listing (all articles, by tag,
\* search) returns Ok with an empty list, for every page index and whatever
\* the index holds, and every page-count operation returns 0; none fails.
C11_PageSizeZeroIsEmpty ==
    (pc["r1"] = "idle" /\ Paginated /\ pg.max_per_page = 0)
        => /\ ret["r1"].kind = "ok"
           /\ ret["r1"].op \in PagedListings => ret["r1"].val = <<>>
           /\ ret["r1"].op \in PageCounts => ret["r1"].val = <<0>>

\* a search with page size 0 and the last page index has returned over an index
\* of two items, each of which its query matches
C11_Witness ==
    /\ pc["r1"] = "idle"
    /\ pc["w1"] = "idle"
    /\ ret["r1"].op = "search_paginated"
    /\ pg.max_per_page = 0
    /\ pg.page_number = UsizeMod - 1
    /\ Len(pg.data) = 2
    /\ Len(sorted_ids) = 2

\* r's last call was a get_article(id) that returned Ok with `status`
GetReturned(r, id, status) ==
    /\ pc[r] = "idle"
    /\ ret[r].op = "get_article"
    /\ ret[r].kind = "ok"
    /\ ret[r].id = id
    /\ ret[r].val[2] = status

\* r is inside op(id), at `at`
Inside(r, op, id, at) == pc[r] = at /\ loc[r].op = op /\ loc[r].id = id

\* C12: for an id other than an enabled sample id 0, a get_article(id) that
\* misses the cache goes to the index, a descriptor found there goes to the
\* store, a body loaded there is put into the cache and returned as NotCached;
\* the next get_article(id), the entry still in the cache, returns the same
\* article as Cached.
C12_MissLoadsThenHits ==
    [][\A id \in ArticleIds : ~(id = 0 /\ sample) =>
          /\ (~CacheHas(cache, id) /\ GetArticleBegin("r1", id))
                => Inside("r1", "get_article", id, "lookup")'
          /\ (/\ Inside("r1", "get_article", id, "lookup")
              /\ IsSome(get_metainfo(id))
              /\ LookupMetainfo("r1"))
                => (Inside("r1", "get_article", id, "load")'
                    /\ loc'["r1"].m = get_metainfo(id))
          /\ (/\ Inside("r1", "get_article", id, "load")
              /\ load_article(loc["r1"].m[1]).ok
              /\ LoadBody("r1"))
                => (Inside("r1", "get_article", id, "put")'
                    /\ loc'["r1"].art = load_article(loc["r1"].m[1]).art)
          /\ (Inside("r1", "get_article", id, "put") /\ PutArticle("r1"))
                => /\ ret'["r1"] = GetOk("get_article", id, loc["r1"].art[1], NotCached)
                   /\ pc'["r1"] = "idle"
                   /\ CacheHas(cache', id)
                   /\ CacheVal(cache', id) = loc["r1"].art[1]
          /\ (/\ GetReturned("r1", id, NotCached)
              /\ CacheHas(cache, id)
              /\ CacheVal(cache, id) = ret["r1"].val[1]
              /\ GetArticleBegin("r1", id))
                => ret'["r1"] = GetOk("get_article", id, ret["r1"].val[1], Cached)]_vars

\* get_article(1) has loaded item 1 and a second get_article(1) has returned
\* it from the cache
C12_Witness ==
    /\ GetReturned("r1", 1, Cached)
    /\ IsSome(get_metainfo(1))
    /\ ret["r1"].val[1] = Article(get_metainfo(1)[1], Render(1))
    /\ CacheHas(cache, 1)

\* C13: with the sample article enabled, every get_article(0) returns the
\* built-in sample tagged NotCached, whatever the filesystem, the index (also
\* during and after a failed rebuild) and the cache hold.
C13_SampleIsNeverCached ==
    (sample /\ ret["r1"].op = "get_article" /\ ret["r1"].id = 0)
        => /\ ret["r1"].kind = "ok"
           /\ ret["r1"].val = <<SAMPLE_ARTICLE, "NotCached">>

\* get_article(0) has returned while the cache holds the entry for id 0 that
\* a refresh_article(0) has put there
C13_Witness ==
    /\ sample
    /\ pc["r1"] = "idle"
    /\ ret["r1"].op = "get_article"
    /\ ret["r1"].id = 0
    /\ CacheHas(cache, 0)

\* C14: no step of refresh_index() (of load_index), in a call that succeeds or
\* in one that fails, changes the cache: its ids, its articles and their
\* recency order stay as they are.
C14_RefreshIndexKeepsCache ==
    [][(LoadIndexBegin("w1") \/ LoadIndexStep("w1")) => cache' = cache]_vars

\* a refresh_index() has failed over a cache that holds an article
C14_Witness ==
    /\ LoadReturned("w1", "err")
    /\ ret["w1"].op = "refresh_index"
    /\ cache # <<>>

\* r's last call was a refresh_article(id) that returned Ok
RefreshReturned(r, id) ==
    /\ pc[r] = "idle"
    /\ ret[r].op = "refresh_article"
    /\ ret[r].kind = "ok"
    /\ ret[r].id = id

\* refresh_article(id), step by step: the call goes to the index without
\* reading or changing the cache; a descriptor found there goes to the store; a
\* body loaded there is put into the cache and returned; the next
\* get_article(id), the entry still in the cache, returns it as Cached
RefreshSteps(id) ==
    /\ RefreshArticleBegin("r1", id)
          => (Inside("r1", "refresh_article", id, "lookup")' /\ cache' = cache)
    /\ (/\ Inside("r1", "refresh_article", id, "lookup")
        /\ IsSome(get_metainfo(id))
        /\ LookupMetainfo("r1"))
          => (Inside("r1", "refresh_article", id, "load")'
              /\ loc'["r1"].m = get_metainfo(id))
    /\ (/\ Inside("r1", "refresh_article", id, "load")
        /\ load_article(loc["r1"].m[1]).ok
        /\ LoadBody("r1"))
          => (Inside("r1", "refresh_article", id, "put")'
              /\ loc'["r1"].art = load_article(loc["r1"].m[1]).art)
    /\ (Inside("r1", "refresh_article", id, "put") /\ PutArticle("r1"))
          => /\ ret'["r1"] = RefreshOk(id, loc["r1"].art[1])
             /\ pc'["r1"] = "idle"
             /\ CacheHas(cache', id)
             /\ CacheVal(cache', id) = loc["r1"].art[1]
    /\ (/\ RefreshReturned("r1", id)
        /\ CacheHas(cache, id)
        /\ CacheVal(cache, id) = ret["r1"].val[1]
        /\ GetArticleBegin("r1", id))
          => ret'["r1"] = GetOk("get_article", id, ret["r1"].val[1], Cached)

\* C15 (as amended): for every id other than an enabled sample id 0,
\* refresh_article(id) of an indexed id with a loadable body loads the body
\* from the store whether or not the id is cached, leaves the loaded article as
\* the cache entry of id, and a following get_article(id) returns it as Cached.
C15_RefreshLoadsAndCaches ==
    [][\A id \in ArticleIds : ~(id = 0 /\ sample) => RefreshSteps(id)]_vars

\* C15 (as claimed): the same for every id present in the index, the sample
\* id 0 included.
C15_RefreshLoadsAndCachesAnyId ==
    [][\A id \in ArticleIds : RefreshSteps(id)]_vars

\* refresh_article(1) has returned the rewritten body of item 1 and left it in
\* the cache
C15_Witness ==
    /\ RefreshReturned("r1", 1)
    /\ ret["r1"].val[1].content = Render(2)
    /\ CacheHas(cache, 1)
    /\ CacheVal(cache, 1) = ret["r1"].val[1]

\* what load_article_from_filesystem(id) produces now: Some(article) or None
LoadNow(id) ==
    IF ~IsSome(get_metainfo(id)) THEN None
    ELSE IF id = 0 /\ sample THEN Some(SAMPLE_ARTICLE)
    ELSE load_article(get_metainfo(id)[1]).art

\* C16: outside the window between an index rebuild and the next cache clear,
\* every cache entry (id, article) equals what loading id from the filesystem
\* produces at that moment.
C16_CacheMatchesFilesystem ==
    (~stale_window /\ ~Rebuilding)
        => \A i \in 1..Len(cache) : Some(cache[i].art) = LoadNow(cache[i].id)

\* the cache's entries for id, in recency order
EntriesOf(c, id) == LET Same(e) == e.id = id IN SelectSeq(c, Same)

\* C17: get_article(id) calls that run concurrently and miss the cache all
\* complete with Ok, each returns the article of its own store load tagged
\* NotCached, and each cache.put leaves a single entry for id, holding the
\* article of the call that has just inserted.
C17_ConcurrentMissesBothLoad ==
    [][\A r \in {"r1", "r2"} :
          /\ (ret'[r].op = "get_article") => (ret'[r].kind = "ok")
          /\ (Inside(r, "get_article", 1, "load") /\ LoadBody(r))
                => (Inside(r, "get_article", 1, "put")'
                    /\ loc'[r].art = load_article(loc[r].m[1]).art)
          /\ (Inside(r, "get_article", 1, "put") /\ PutArticle(r))
                => /\ ret'[r] = GetOk("get_article", 1, loc[r].art[1], NotCached)
                   /\ EntriesOf(cache', 1) = <<[id |-> 1, art |-> loc[r].art[1]]>>]_vars

\* both calls have missed and returned, with different articles (the body was
\* rewritten between their loads), and the cache holds one of the two
C17_Witness ==
    /\ GetReturned("r1", 1, NotCached)
    /\ GetReturned("r2", 1, NotCached)
    /\ ret["r1"].val[1] # ret["r2"].val[1]
    /\ Len(EntriesOf(cache, 1)) = 1

\* C18: no caller holds the cache lock or an index lock at a filesystem read
\* of the store; no caller holds the cache lock together with an index lock;
\* and whenever an operation is under way, some caller can take its next step
\* (no deadlock).
C18_NoLockAcrossIoNoDeadlock ==
    /\ \A p \in Procs :
          (pc[p] = "run" /\ Head(loc[p].prog)[1] = "io") => loc[p].held = {}
    /\ \A p \in Procs : ~("cache" \in loc[p].held /\ loc[p].held \cap IndexLocks # {})
    /\ (\E p \in Procs : pc[p] = "run") => (\E p \in Procs : pc[p] = "run" /\ ~Blocked(p))

\* r1 is at its body load while r2 holds the cache lock and w1 an index lock
C18_Witness ==
    /\ pc["r1"] = "run"
    /\ Head(loc["r1"].prog) = Io("load_article")
    /\ loc["r2"].held = {"cache"}
    /\ loc["w1"].held \cap IndexLocks # {}

\* between calls j and k of the log nothing removes or replaces the entry of
\* id: no clear(), no put(id, _), no eviction of id
Undisturbed(j, k, id) ==
    \A m \in (j + 1)..(k - 1) :
        /\ cache_log[m].op # "clear"
        /\ ~(cache_log[m].op = "put" /\ cache_log[m].id = id)
        /\ cache_log[m].evicted # Some(id)

\* C19: a get(id) made after a put(id, a), with no eviction of id, no clear()
\* and no later put(id, _) in between, returns a, whatever other ids were
\* read or written in between.
C19_GetReturnsLastPut ==
    \A k \in 1..Len(cache_log) : \A j \in 1..(k - 1) :
        (/\ cache_log[k].op = "get"
         /\ cache_log[j].op = "put"
         /\ cache_log[j].id = cache_log[k].id
         /\ Undisturbed(j, k, cache_log[k].id))
            => cache_log[k].res = cache_log[j].art

\* put(id, a), then another id written and read, then get(id) has returned a
C19_Witness ==
    /\ Len(cache_log) = 4
    /\ cache_log[1].op = "put"
    /\ cache_log[2].op = "put" /\ cache_log[2].id # cache_log[1].id
    /\ cache_log[3].op = "get" /\ cache_log[3].id = cache_log[2].id
    /\ cache_log[4].op = "get" /\ cache_log[4].id = cache_log[1].id
    /\ cache_log[4].res = cache_log[1].art

\* the ids the log says are cached just before call k, and the last call
\* before k that used id (put it, or read it with a hit)
CachedAt(k) ==
    {id \in CacheIds :
        \E j \in 1..(k - 1) :
            cache_log[j].op = "put" /\ cache_log[j].id = id /\ Undisturbed(j, k, id)}

Uses(k, id) ==
    {m \in 1..(k - 1) :
        /\ cache_log[m].id = id
        /\ \/ cache_log[m].op = "put"
           \/ cache_log[m].op = "get" /\ cache_log[m].res # None}

LastUse(k, id) == CHOOSE m \in Uses(k, id) : \A n \in Uses(k, id) : n <= m

\* C20: the cache never holds more than Capacity entries; a put that drops an
\* entry drops the least recently used one (put or read) of those cached, and
\* only when the cache is full; the cache holds exactly the ids put and not
\* dropped or cleared since.
C20_EvictsLeastRecentlyUsed ==
    /\ Len(cache) <= Capacity
    /\ {cache[i].id : i \in 1..Len(cache)} = CachedAt(Len(cache_log) + 1)
    /\ Cardinality(CachedAt(Len(cache_log) + 1)) = Len(cache)
    /\ \A k \in 1..Len(cache_log) :
          IF cache_log[k].op = "put" /\ cache_log[k].id \notin CachedAt(k)
                /\ Cardinality(CachedAt(k)) >= Capacity
          THEN /\ cache_log[k].evicted # None
               /\ cache_log[k].evicted[1] \in CachedAt(k)
               /\ \A other \in CachedAt(k) :
                     LastUse(k, cache_log[k].evicted[1]) <= LastUse(k, other)
          ELSE cache_log[k].evicted = None

\* Capacity + 1 distinct ids have been put into the empty cache, the first of
\* them read again before the last put: Capacity entries are left, and the
\* first id is among them
C20_Witness ==
    /\ Len(cache_log) = Capacity + 2
    /\ \A k \in 1..Capacity : cache_log[k].op = "put"
    /\ cache_log[Capacity + 1].op = "get"
    /\ cache_log[Capacity + 1].id = cache_log[1].id
    /\ cache_log[Capacity + 2].op = "put"
    /\ Cardinality({cache_log[k].id : k \in 1..(Capacity + 2)}) = Capacity + 1
    /\ Len(cache) = Capacity
    /\ CacheHas(cache, cache_log[1].id)

\* between the hit j and the call k the cache is used for no other entry:
\* no clear(), and every call is for id or a get that misses
OnlyUsed(j, k, id) ==
    \A m \in (j + 1)..(k - 1) :
        /\ cache_log[m].op # "clear"
        /\ \/ cache_log[m].id = id
           \/ cache_log[m].op = "get" /\ cache_log[m].res = None

\* C21: a hit counts as a use. When get(a) hits in a full cache (of two or
\* more entries) and the next use of the cache for another id is the put of an
\* id that is not cached, that put drops the least recently used of the
\* entries other than a, and a is still cached after it.
C21_HitCountsAsUse ==
    \A k \in 1..Len(cache_log) : \A j \in 1..(k - 1) :
        LET a == cache_log[j].id
        IN (/\ Capacity >= 2
            /\ cache_log[j].op = "get" /\ cache_log[j].res # None
            /\ Cardinality(CachedAt(j)) >= Capacity
            /\ cache_log[k].op = "put" /\ cache_log[k].id \notin CachedAt(k)
            /\ OnlyUsed(j, k, a))
               => /\ cache_log[k].evicted # None
                  /\ cache_log[k].evicted[1] \in CachedAt(k) \ {a}
                  /\ \A other \in CachedAt(k) \ {a} :
                        LastUse(k, cache_log[k].evicted[1]) <= LastUse(k, other)
                  /\ a \in CachedAt(k + 1)
                  /\ (k = Len(cache_log) => CacheHas(cache, a))

\* the cache was filled oldest entry first, the oldest was read with a hit,
\* and the put of a new id has then dropped the second oldest
C21_Witness ==
    /\ Capacity >= 2
    /\ Len(cache_log) = Capacity + 2
    /\ \A k \in 1..Capacity : cache_log[k].op = "put"
    /\ Cardinality({cache_log[k].id : k \in 1..Capacity}) = Capacity
    /\ cache_log[Capacity + 1].op = "get"
    /\ cache_log[Capacity + 1].id = cache_log[1].id
    /\ cache_log[Capacity + 1].res = cache_log[1].art
    /\ cache_log[Capacity + 2].op = "put"
    /\ cache_log[Capacity + 2].id \notin {cache_log[k].id : k \in 1..Capacity}
    /\ cache_log[Capacity + 2].evicted = Some(cache_log[2].id)
    /\ CacheHas(cache, cache_log[1].id)

\* C22: clear_cache() returns normally, empties the cache and leaves by_id,
\* by_tag and sorted_ids as they are; the cache stays empty until the caller's
\* next insertion, so its next get_article(id) of an id other than an enabled
\* sample id 0 is a miss: it returns the article tagged NotCached, or an error.
C22_ClearCacheEmptiesCacheOnly ==
    [][/\ ClearCacheBy("r1") =>
            /\ ret'["r1"] = Ret("clear_cache", "ok", "", <<>>, 0, "")
            /\ <<by_id', by_tag', sorted_ids'>> = <<by_id, by_tag, sorted_ids>>
       /\ ret'["r1"].op = "clear_cache" => cache' = <<>>
       /\ (/\ ret["r1"].op = "clear_cache"
           /\ ret'["r1"].op = "get_article"
           /\ ~(ret'["r1"].id = 0 /\ sample)
           /\ ret'["r1"].kind = "ok") => ret'["r1"].val[2] = NotCached]_vars

\* item 1 was cached, the cache was cleared during a rebuild, and the caller's
\* next get_article(1) has missed and is about to insert the article again
C22_Witness ==
    /\ ret["r1"].op = "clear_cache"
    /\ pc["r1"] = "put"
    /\ loc["r1"].id = 1
    /\ cache = <<>>
    /\ pc["w1"] # "idle"
    /\ IsSome(by_id[1])

\* the tag list the index held when the last rebuild began
OldIdsByTag(tag) == IF IsSome(old.by_tag[tag]) THEN old.by_tag[tag][1] ELSE <<>>

\* C23: over a filesystem that does not change, with one rebuild at a time, a
\* refresh_index() that follows another load_index leaves all_ids() and
\* ids_for_tag(T), for every tag T, as the call before it left them.
C23_RefreshTwiceSameLists ==
    (pc["w1"] = "idle" /\ ret["w1"].op = "refresh_index")
        => /\ get_all_ids = old.sorted_ids
           /\ \A t \in Tags : get_ids_by_tag(t) = OldIdsByTag(t)

\* a refresh_index() has returned over an index of three ids one of whose tag
\* lists holds two or more of them
C23_Witness ==
    /\ LoadReturned("w1", "ok")
    /\ ret["w1"].op = "refresh_index"
    /\ Len(get_all_ids) >= 3
    /\ Len(old.sorted_ids) >= 3
    /\ \E t \in Tags : Len(get_ids_by_tag(t)) >= 2

\* the entry named n is a well-formed item: a directory with a numeric name
\* and a metainfo.toml that parses and whose id is the number in the name
WellFormed(n) ==
    /\ fs.dirs[n].kind = "dir"
    /\ ParseI32(n).ok
    /\ fs.dirs[n].meta = "ok"
    /\ fs.dirs[n].id = ParseI32(n).val

\* the descriptor the index should hold for a well-formed entry
DescriptorOf(n) ==
    Metainfo(fs.dirs[n].id, fs.dirs[n].tags, fs.dirs[n].md, fs.dirs[n].title,
             fs.dirs[n].description)

\* C24: a load_index over a readable root returns Ok whatever bad entries the
\* root holds; every well-formed item is in by_id and all_ids(), and by_id
\* holds nothing else (but the sample article, when enabled): an entry that is
\* no directory, has a non-numeric name, has no metainfo.toml, does not parse
\* or records an id other than its directory's is left out.
C24_BadEntriesAreSkipped ==
    (pc["w1"] = "idle" /\ ret["w1"].op \in {"new", "refresh_index"} /\ fs.root)
        => /\ ret["w1"].kind = "ok"
           /\ \A n \in Names :
                 WellFormed(n) => /\ IsSome(get_metainfo(fs.dirs[n].id))
                                  /\ fs.dirs[n].id \in Range(get_all_ids)
           /\ \A id \in Keys(by_id) :
                 \/ id = 0 /\ sample
                 \/ \E n \in Names : WellFormed(n) /\ by_id[id][1] = DescriptorOf(n)

\* C29: a scan adds the entry of a directory to the index only if the integer
\* its metainfo.toml records as id equals the number in the directory's name;
\* a record whose id is another integer (say the directory's id plus I32Mod)
\* is passed over: the step that takes the entry leaves by_id as it is and
\* goes on with the scan.
C29_IdIsComparedAsInteger ==
    [][\A n \in Names :
          (/\ pc["w1"] = "scan"
           /\ n \in loc["w1"].todo
           /\ loc'["w1"].todo = loc["w1"].todo \ {n}
           /\ ParseI32(n).ok
           /\ fs.dirs[n].id # ParseI32(n).val)
              => (by_id' = by_id /\ pc'["w1"] = "scan")]_vars

\* query occurs in s: s is some prefix, then query, then some suffix
Occurs(query, s) ==
    \E i \in 0..Len(s) : \E j \in i..Len(s) : SubSeq(s, i + 1, j) = query

\* the ids all_ids() lists whose descriptor has query in its title or its
\* description, and their summaries in ascending order of id
MatchingIds(query) ==
    {id \in Range(get_all_ids) :
        /\ IsSome(get_metainfo(id))
        /\ \/ Occurs(query, get_metainfo(id)[1].title)
           \/ Occurs(query, get_metainfo(id)[1].description)}

Matching(query) ==
    LET ids == CHOOSE q \in Enumerations(MatchingIds(query)) : IsStrictlyAscending(q)
    IN [i \in 1..Len(ids) |-> ArticleSummary(get_metainfo(ids[i])[1])]

\* C25: with no rebuild running during the call, search_articles(query)
\* returns Ok with the summaries of exactly the items all_ids() lists whose
\* title or description holds query as a substring (characters compared as
\* they are), in strictly ascending order of id; Ok with no summaries when
\* nothing matches.
C25_SearchReturnsMatches ==
    [][/\ ((\E query \in SearchQueries : SearchBegin("r1", "search", query, 0, 0))
              /\ pc'["r1"] = "idle")
          => (ret'["r1"] = ListOk("search", "", <<>>) /\ get_all_ids = <<>>)
       /\ (pc["r1"] = "search" /\ loc["r1"].op = "search" /\ pc'["r1"] = "idle"
              /\ SearchStep("r1"))
          => /\ ret'["r1"] = ListOk("search", "", Matching(loc["r1"].query))
             /\ IsStrictlyAscending([i \in 1..Len(ret'["r1"].val) |->
                                        ret'["r1"].val[i].id])]_vars

\* a search of an index of two or more items has returned item 2 alone (the
\* query "ba" is in its description and in nothing else)
C25_Witness ==
    /\ pc["r1"] = "idle" /\ pc["w1"] = "idle"
    /\ ret["r1"].op = "search"
    /\ Len(get_all_ids) >= 2
    /\ Len(ret["r1"].val) = 1
    /\ ret["r1"].val[1].id = 2

\* what a call of r1 that has the full search result `full` must return
SearchDerived(op, full, max_per_page, page_number) ==
    LET n == compute_total_pages(Len(full), max_per_page, overflow_checks)
        page == paginate(full, max_per_page, page_number, overflow_checks)
    IN IF op = "search_page_count"
       THEN IF n.panic THEN ret'["r1"].kind = "panic"
            ELSE ret'["r1"] = Ret(op, "ok", "", <<n.val>>, 0, "")
       ELSE /\ page.kind \in {"ok", "none"} => ret'["r1"] = ListOk(op, "", page.val)
            /\ page.kind \notin {"ok", "none"} => ret'["r1"].kind = page.kind
            /\ (~n.panic /\ page_number < n.val /\ page.kind # "panic")
                  => ret'["r1"] =
                        ListOk(op, "",
                               SubSeq(full, page_number * max_per_page + 1,
                                      Min((page_number + 1) * max_per_page, Len(full))))

\* C26: with no rebuild running during the call,
\* get_search_article_page_count(q, s) returns what the Paginator computes as
\* the page count of the full result of search_articles(q), and
\* search_articles_paginated(q, s, p) returns what the Paginator makes of that
\* full result: for a page index below the page count, the items at positions
\* [p*s, min((p+1)*s, n)) of it.
C26_SearchPagesAreDerived ==
    [][(/\ pc["r1"] = "search"
        /\ loc["r1"].op \in {"search_page_count", "search_paginated"}
        /\ pc'["r1"] = "idle")
          => SearchDerived(loc["r1"].op, Matching(loc["r1"].query),
                           loc["r1"].max_per_page, loc["r1"].page_number)]_vars

\* page 1 of size 2 of a search that matches three items has been returned:
\* the third item alone
C26_Witness ==
    /\ pc["r1"] = "idle" /\ pc["w1"] = "idle"
    /\ ret["r1"].op = "search_paginated"
    /\ ret["r1"].kind = "ok"
    /\ sample
    /\ Len(pg.data) = 3
    /\ pg.max_per_page = 2
    /\ pg.page_number = 1
    /\ ret["r1"].val = <<pg.data[3]>>

\* C27: for a tag under which the index lists no item (by_tag has no entry
\* for it), ids_for_tag is the empty sequence, list_article_summaries_by_tag
\* returns Ok with no summaries, the tag's page count is 0 for every page
\* size, and neither call gives by_tag an entry for the tag.
C27_UnknownTagIsEmpty ==
    [][\A tag \in Tags :
          (pc["r1"] = "idle" /\ ~IsSome(by_tag[tag]) /\ ret'["r1"].tag = tag)
             => /\ (ret'["r1"].op = "list_by_tag" /\ ListByTagBegin("r1", tag))
                      => /\ get_ids_by_tag(tag) = <<>>
                         /\ ret'["r1"] = ListOk("list_by_tag", tag, <<>>)
                         /\ pc'["r1"] = "idle"
                         /\ by_tag' = by_tag
                /\ \A max_per_page \in PageSizes :
                      (/\ ret'["r1"].op = "page_count_by_tag"
                       /\ PageCount("r1", "page_count_by_tag", tag, get_ids_by_tag(tag),
                                    max_per_page))
                         => /\ ret'["r1"].kind = "ok"
                            /\ ret'["r1"].val = <<0>>
                            /\ by_tag' = by_tag]_vars

\* with item 1 (tag "a") indexed and no rebuild running, a listing by a tag
\* nothing carries has returned, and by_tag still has no entry for the tag
C27_Witness ==
    /\ pc["r1"] = "idle" /\ pc["w1"] = "idle"
    /\ IsSome(by_tag["a"])
    /\ ret["r1"] = ListOk("list_by_tag", "b", <<>>)
    /\ ~IsSome(by_tag["b"])

\* C28: for every number of items and every page size >= 1 that fit a usize,
\* compute_total_pages returns ceil(total_items / page_size) (0 for no items):
\* the sum total_items + page_size - 1 is formed without wrapping around and
\* without an overflow panic, however large the page size.
C28_PageCountIsCeiling ==
    (pg.res.kind # "uncalled" /\ pg.max_per_page >= 1)
        => /\ pg.res.kind = "count"
           /\ pg.res.val = <<CeilDiv(Len(pg.data), pg.max_per_page)>>
           /\ Len(pg.data) = 0 => pg.res.val = <<0>>

\* C30: a get_article or refresh_article call that fails leaves the cache as
\* it was, entries and order of recency alike. The cache changes only in a
\* step in which the caller returns Ok (a hit, or the insertion that ends a
\* load), and a call that has reached its insertion returns Ok: no step of a
\* call that returns an error, from its first to its last, changes the cache,
\* so an entry cached for id is still there after a failed refresh_article(id).
C30_FailedFetchKeepsCache ==
    [][/\ cache' # cache
            => /\ pc["r1"] \in {"idle", "put"}
               /\ pc'["r1"] = "idle"
               /\ ret'["r1"].kind = "ok"
               /\ ret'["r1"].op \in {"get_article", "refresh_article"}
       /\ (pc["r1"] # "idle" /\ pc'["r1"] = "idle" /\ ret'["r1"].kind = "err")
            => (pc["r1"] \in {"lookup", "load"} /\ cache' = cache)]_vars

\* items 0 and 1 are cached, item 1 most recently, and a refresh_article(1)
\* has failed on the missing body file
C30_Witness ==
    /\ pc["r1"] = "idle"
    /\ ret["r1"] = GetErr("refresh_article", 1, "MissingBodyFile")
    /\ Len(cache) = 2
    /\ cache[1].id = 0
    /\ cache[2].id = 1


\* C31: once refresh_article(1) has returned the article loaded from the last
\* version of the body (so the filesystem cannot change afterwards), every
\* get_article(1) made later returns content of that version, also when a
\* get_article(1) that had missed the cache and loaded an earlier version
\* was in flight during the refresh. Stated for the later calls that find the
\* entry in the cache: a caller q holds the refreshed article of the last
\* version as its last result, and another caller r makes a get_article(1)
\* that returns in one step.
C31_RefreshedVersionStays ==
    [][\A r \in {"r1", "r2"} : \A q \in {"r1", "r2"} \ {r} :
          (/\ pc[r] = "idle"
           /\ pc'[r] = "idle"
           /\ ret[q].op = "refresh_article"
           /\ ret[q].kind = "ok"
           /\ ret[q].val[1].content = Render(LastVersion)
           /\ ret'[r].op = "get_article"
           /\ ret'[r].kind = "ok"
           /\ GetArticleBegin(r, 1))
              => ret'[r].val[1].content = Render(LastVersion)]_vars

====
